---- MODULE Spec2Model ----
(***************************************************************************)
(* Resume screening workflow (resumescreening/graph.py) and its tools      *)
(* (resumescreening/tools.py): the LangGraph state machine                 *)
(*   screen_resumes -> init_interviews -> router -> {schedule_round,       *)
(*   collect_feedback}* -> generate_hr_report -> END                       *)
(* over the process-wide slot ledger BOOKED.                               *)
(***************************************************************************)
EXTENDS Integers, Sequences, FiniteSets, TLC

VARIABLES
    pc,                 \* the graph node about to run ("END" once finished)
    resumes,            \* state["resumes"]
    screening_results,  \* state["screening_results"]
    interviews,         \* state["interviews"]
    hr_report,          \* state["hr_report"]
    BOOKED,             \* tools.BOOKED, the module-level list of booked slots
    callers,            \* concurrent book_slot invocations, each with its position
    log,                \* the tool calls made so far, with what they returned
    ret                 \* a call of a pure function: its arguments and its result

vars == <<pc, resumes, screening_results, interviews, hr_report, BOOKED,
          callers, log, ret>>

-----------------------------------------------------------------------------
(* Bounds of the model *)

\* longest resume list given to one run
MaxResumes == 5
\* number of concurrent book_slot callers
MaxCallers == 2
\* number of tool calls in a sequential ledger session
MaxCalls == 3
\* number of interview records in a routed snapshot
MaxInterviews == 3
\* number of vocabulary words in a feedback text
MaxWords == 2
\* largest round number given to decide_next_step
MaxRound == 3

-----------------------------------------------------------------------------
(* Python values *)

\* Python's None (no feedback text and no decision equals it)
None == "<None>"

\* the job description of the run (the dummy scorer ignores it)
JobDescription == "backend engineer, python"

\* resume texts a run may be given (the dummy parser ignores the text)
ResumeTexts == {"resume A", "resume B"}

\* x in xs, for a Python list xs
In(x, xs) == \E i \in 1..Len(xs) : xs[i] = x

\* sub in s, for Python strings (t is s, evaluated once)
Contains(sub, s) ==
    \E t \in {s} :
        \E i \in 1..(Len(t) - Len(sub) + 1) : SubSeq(t, i, i + Len(sub) - 1) = sub

UpperCase == "ABCDEFGHIJKLMNOPQRSTUVWXYZ"
LowerCase == "abcdefghijklmnopqrstuvwxyz"

\* str.lower() of a one-character string (ASCII)
lower_char(c) ==
    IF \E i \in 1..Len(UpperCase) : SubSeq(UpperCase, i, i) = c
    THEN LET i == CHOOSE k \in 1..Len(UpperCase) : SubSeq(UpperCase, k, k) = c
         IN  SubSeq(LowerCase, i, i)
    ELSE c

\* str.lower() of the characters of s from position i on
RECURSIVE lower_from(_, _)
lower_from(s, i) ==
    IF i > Len(s) THEN ""
    ELSE lower_char(SubSeq(s, i, i)) \o lower_from(s, i + 1)

\* str.lower()
lower(s) == lower_from(s, 1)

\* all sequences over S of length at most n
RECURSIVE SeqsUpTo(_, _)
SeqsUpTo(S, n) ==
    IF n = 0 THEN {<<>>}
    ELSE LET shorter == SeqsUpTo(S, n - 1)
         IN  shorter \cup {Append(q, x) : q \in shorter, x \in S}

-----------------------------------------------------------------------------
(* tools.py *)

parse_resume(text) ==
    [skills |-> <<"python", "fastapi", "docker">>,
     years_experience |-> 4,
     summary |-> "Software engineer with backend experience"]

\* the score 0.8 and the threshold 0.7 are kept in tenths
score_against_jd(jd, profile) ==
    LET score == 8
        reasons == "Good match for backend skills and years of experience"
        decision == IF score >= 7 THEN "shortlist" ELSE "reject"
    IN  [score |-> score, decision |-> decision, reasons |-> reasons]

PANEL_SLOTS ==
    [backend_engineer |-> <<"2025-12-13 10:00", "2025-12-13 11:00",
                            "2025-12-13 15:00", "2025-12-13 16:00">>]

\* PANEL_SLOTS.get(role, [])
panel_slots_get(role) ==
    IF role \in DOMAIN PANEL_SLOTS THEN PANEL_SLOTS[role] ELSE <<>>

get_panel_availability(role, booked) ==
    SelectSeq(panel_slots_get(role), LAMBDA s : ~In(s, booked))

\* book_slot that answers "confirmed" without recording the slot
book_slot_unrecorded(candidate_id, slot, booked) ==
    IF In(slot, booked)
    THEN [status |-> "failed", slot |-> slot, booked |-> booked]
    ELSE [status |-> "confirmed", slot |-> slot, booked |-> booked]

\* book_slot without the membership test
book_slot_unchecked(candidate_id, slot, booked) ==
    [status |-> "confirmed", slot |-> slot, booked |-> Append(booked, slot)]

\* the returned dict, and BOOKED after the call in field booked
book_slot(candidate_id, slot, booked) ==
    IF In(slot, booked)
    THEN [status |-> "failed", slot |-> slot, booked |-> booked]
    ELSE [status |-> "confirmed", slot |-> slot, booked |-> Append(booked, slot)]

simulate_feedback(round_no) ==
    IF round_no = 1
    THEN "Round 1 feedback: strong python and basic design skills."
    ELSE "Round 2 feedback: strong system design and communication."

\* decide_next_step that looks for "strong" before "weak"
decide_next_step_strong_first(feedback, round_no) ==
    LET feedback_parsed == lower(feedback) IN
    IF Contains("strong", feedback_parsed) /\ round_no >= 2 THEN "offer"
    ELSE IF Contains("strong", feedback_parsed) /\ round_no = 1 THEN "next_round"
    ELSE "reject"

decide_next_step(feedback, round_no) ==
    LET feedback_parsed == lower(feedback) IN
    IF Contains("weak", feedback_parsed) THEN "reject"
    ELSE IF Contains("strong", feedback_parsed) /\ round_no >= 2 THEN "offer"
    ELSE IF Contains("strong", feedback_parsed) /\ round_no = 1 THEN "next_round"
    ELSE "reject"

-----------------------------------------------------------------------------
(* graph.py: the nodes as functions of the state *)

\* f"cand-{idx + 1}" for the 0-based position idx
candidate_id_of(idx) == "cand-" \o ToString(idx + 1)

screen_result(idx, resume) ==
    LET profile == parse_resume(resume)
        score_info == score_against_jd(JobDescription, profile)
    IN  [candidate_id |-> candidate_id_of(idx),
         score |-> score_info.score,
         decision |-> score_info.decision,
         reasons |-> score_info.reasons]

screen_resumes(rs) == [i \in 1..Len(rs) |-> screen_result(i - 1, rs[i])]

new_interview(screening_result) ==
    [candidate_id |-> screening_result.candidate_id,
     status |-> "pending_first_round",
     current_round |-> 0,
     history |-> <<>>]

\* init_interviews_node without the test of the screening decision
RECURSIVE init_interviews_unfiltered(_)
init_interviews_unfiltered(results) ==
    IF results = <<>> THEN <<>>
    ELSE <<new_interview(Head(results))>> \o init_interviews_unfiltered(Tail(results))

RECURSIVE init_interviews(_)
init_interviews(results) ==
    IF results = <<>> THEN <<>>
    ELSE IF Head(results).decision = "shortlist"
         THEN <<new_interview(Head(results))>> \o init_interviews(Tail(results))
         ELSE init_interviews(Tail(results))

\* route_next that looks for waiting candidates first
route_next_feedback_first(ivs) ==
    IF \E i \in 1..Len(ivs) : ivs[i].status = "waiting_feedback"
    THEN "collect_feedback"
    ELSE IF \E i \in 1..Len(ivs) :
                ivs[i].status \in {"pending_first_round", "next_round_pending"}
    THEN "schedule_round"
    ELSE "generate_hr_report"

\* route_next that ends the run once every candidate has had two rounds
route_next_round_capped(ivs) ==
    IF \A i \in 1..Len(ivs) : ivs[i].current_round >= 2
    THEN "generate_hr_report"
    ELSE IF \E i \in 1..Len(ivs) :
                ivs[i].status \in {"pending_first_round", "next_round_pending"}
    THEN "schedule_round"
    ELSE IF \E i \in 1..Len(ivs) : ivs[i].status = "waiting_feedback"
    THEN "collect_feedback"
    ELSE "generate_hr_report"

route_next(ivs) ==
    IF \E i \in 1..Len(ivs) :
           ivs[i].status \in {"pending_first_round", "next_round_pending"}
    THEN "schedule_round"
    ELSE IF \E i \in 1..Len(ivs) : ivs[i].status = "waiting_feedback"
    THEN "collect_feedback"
    ELSE "generate_hr_report"

\* the round appended with the counter left as it was
scheduled_no_increment(interview, chosen) ==
    [interview EXCEPT
        !.status = "waiting_feedback",
        !.history = Append(@, [round_number |-> interview.current_round + 1,
                               slot |-> chosen,
                               feedback |-> None,
                               decision |-> None])]

\* the round numbered before the counter is incremented
scheduled_stale_number(interview, chosen) ==
    [interview EXCEPT
        !.current_round = @ + 1,
        !.status = "waiting_feedback",
        !.history = Append(@, [round_number |-> interview.current_round,
                               slot |-> chosen,
                               feedback |-> None,
                               decision |-> None])]

\* the interview after a confirmed booking of slot chosen
scheduled(interview, chosen) ==
    [interview EXCEPT
        !.current_round = @ + 1,
        !.status = "waiting_feedback",
        !.history = Append(@, [round_number |-> interview.current_round + 1,
                               slot |-> chosen,
                               feedback |-> None,
                               decision |-> None])]

\* slots.pop(0) that leaves the slot in the list
slots_after_peek(slots) == slots

\* the list left by slots.pop(0)
slots_after_pop(slots) == Tail(slots)

\* the for loop of schedule_round_node, trying the next slot for the same
\* candidate when a booking fails
RECURSIVE schedule_loop_retrying(_, _, _, _)
schedule_loop_retrying(i, ivs, slots, booked) ==
    IF i > Len(ivs) THEN [interviews |-> ivs, booked |-> booked]
    ELSE IF ivs[i].status \notin {"pending_first_round", "next_round_pending"}
    THEN schedule_loop_retrying(i + 1, ivs, slots, booked)
    ELSE IF slots = <<>>
    THEN schedule_loop_retrying(i + 1, ivs, slots, booked)
    ELSE LET chosen == Head(slots)
             rest == slots_after_pop(slots)
             booking == book_slot(ivs[i].candidate_id, chosen, booked)
         IN  IF booking.status # "confirmed"
             THEN schedule_loop_retrying(i, ivs, rest, booking.booked)
             ELSE schedule_loop_retrying(i + 1,
                                [ivs EXCEPT ![i] = scheduled(ivs[i], chosen)],
                                rest, booking.booked)

\* the for loop of schedule_round_node from position i on
RECURSIVE schedule_loop(_, _, _, _)
schedule_loop(i, ivs, slots, booked) ==
    IF i > Len(ivs) THEN [interviews |-> ivs, booked |-> booked]
    ELSE IF ivs[i].status \notin {"pending_first_round", "next_round_pending"}
    THEN schedule_loop(i + 1, ivs, slots, booked)
    ELSE IF slots = <<>>
    THEN schedule_loop(i + 1, ivs, slots, booked)
    ELSE LET chosen == Head(slots)
             rest == slots_after_pop(slots)
             booking == book_slot(ivs[i].candidate_id, chosen, booked)
         IN  IF booking.status # "confirmed"
             THEN schedule_loop(i + 1, ivs, rest, booking.booked)
             ELSE schedule_loop(i + 1,
                                [ivs EXCEPT ![i] = scheduled(ivs[i], chosen)],
                                rest, booking.booked)

schedule_round(ivs, booked) ==
    schedule_loop(1, ivs, get_panel_availability("backend_engineer", booked), booked)

\* the status written for a decision, with next_round sent back to the start
status_after_restart(status, decision) ==
    IF decision = "next_round" THEN "pending_first_round"
    ELSE IF decision = "reject" THEN "rejected"
    ELSE IF decision = "offer" THEN "offer_made"
    ELSE status

\* the if/elif chain on the decision
status_after(status, decision) ==
    IF decision = "next_round" THEN "next_round_pending"
    ELSE IF decision = "reject" THEN "rejected"
    ELSE IF decision = "offer" THEN "offer_made"
    ELSE status

\* the iteration appending a round for the feedback instead of filling the last
collect_one_appending(interview) ==
    IF interview.status # "waiting_feedback" THEN interview
    ELSE LET n == Len(interview.history)
             last_round == interview.history[n]
             round_no == last_round.round_number
             feedback == simulate_feedback(round_no)
             decision == decide_next_step(feedback, round_no)
         IN  [interview EXCEPT
                 !.history = Append(@, [last_round EXCEPT !.feedback = feedback,
                                                          !.decision = decision]),
                 !.status = status_after(@, decision)]

\* the iteration writing into history[0] instead of history[-1]
collect_one_first_round(interview) ==
    IF interview.status # "waiting_feedback" THEN interview
    ELSE LET n == Len(interview.history)
             last_round == interview.history[n]
             round_no == last_round.round_number
             feedback == simulate_feedback(round_no)
             decision == decide_next_step(feedback, round_no)
         IN  [interview EXCEPT
                 !.history[1].feedback = feedback,
                 !.history[1].decision = decision,
                 !.status = status_after(@, decision)]

\* the iteration that does not write the decision into the round
collect_one_decision_unwritten(interview) ==
    IF interview.status # "waiting_feedback" THEN interview
    ELSE LET n == Len(interview.history)
             last_round == interview.history[n]
             round_no == last_round.round_number
             feedback == simulate_feedback(round_no)
             decision == decide_next_step(feedback, round_no)
         IN  [interview EXCEPT
                 !.history[n].feedback = feedback,
                 !.status = status_after(@, decision)]

\* one iteration of the loop of collect_feedback_node
collect_one(interview) ==
    IF interview.status # "waiting_feedback" THEN interview
    ELSE LET n == Len(interview.history)
             last_round == interview.history[n]
             round_no == last_round.round_number
             feedback == simulate_feedback(round_no)
             decision == decide_next_step(feedback, round_no)
         IN  [interview EXCEPT
                 !.history[n].feedback = feedback,
                 !.history[n].decision = decision,
                 !.status = status_after(@, decision)]

collect_feedback(ivs) == [i \in 1..Len(ivs) |-> collect_one(ivs[i])]

-----------------------------------------------------------------------------
(* The workflow run: build_graph's nodes and edges *)

NoCall == [op |-> "none"]

Init ==
    /\ pc = "screen_resumes"
    /\ resumes \in SeqsUpTo(ResumeTexts, MaxResumes)
    /\ screening_results = <<>>
    /\ interviews = <<>>
    /\ hr_report = None
    /\ BOOKED = <<>>
    /\ callers = <<>>
    /\ log = <<>>
    /\ ret = NoCall

screen_resumes_node ==
    /\ pc = "screen_resumes"
    /\ screening_results' = screen_resumes(resumes)
    /\ pc' = "init_interviews"
    /\ UNCHANGED <<resumes, interviews, hr_report, BOOKED, callers, log, ret>>

init_interviews_node ==
    /\ pc = "init_interviews"
    /\ interviews' = init_interviews(screening_results)
    /\ pc' = "router"
    /\ UNCHANGED <<resumes, screening_results, hr_report, BOOKED, callers, log, ret>>

router_node ==
    /\ pc = "router"
    /\ pc' = route_next(interviews)
    /\ UNCHANGED <<resumes, screening_results, interviews, hr_report, BOOKED,
                   callers, log, ret>>

schedule_round_node ==
    /\ pc = "schedule_round"
    /\ LET after == schedule_round(interviews, BOOKED)
       IN  /\ interviews' = after.interviews
           /\ BOOKED' = after.booked
    /\ pc' = "router"
    /\ UNCHANGED <<resumes, screening_results, hr_report, callers, log, ret>>

collect_feedback_node ==
    /\ pc = "collect_feedback"
    /\ interviews' = collect_feedback(interviews)
    /\ pc' = "router"
    /\ UNCHANGED <<resumes, screening_results, hr_report, BOOKED, callers, log, ret>>

\* the report text is whatever the LLM answers
generate_hr_report_node ==
    /\ pc = "generate_hr_report"
    /\ hr_report' = "report"
    /\ pc' = "END"
    /\ UNCHANGED <<resumes, screening_results, interviews, BOOKED, callers, log, ret>>

Next ==
    \/ screen_resumes_node
    \/ init_interviews_node
    \/ router_node
    \/ schedule_round_node
    \/ collect_feedback_node
    \/ generate_hr_report_node

Spec == Init /\ [][Next]_vars

\* the graph engine runs the next node whenever there is one
FairSpec == Spec /\ WF_vars(Next)

-----------------------------------------------------------------------------
(* The run when a feedback or decision collaborator raises: the loop of    *)
(* collect_feedback_node has no try/except, so the exception leaves the    *)
(* node and the run                                                        *)

\* interviews when the call for the candidate at position failing raises: the
\* dicts of the candidates before it were updated in place, the rest not
collect_feedback_until(ivs, failing) ==
    [i \in 1..Len(ivs) |-> IF i < failing THEN collect_one(ivs[i]) ELSE ivs[i]]

collect_feedback_node_raises(failing) ==
    /\ pc = "collect_feedback"
    /\ failing \in 1..Len(interviews)
    /\ interviews[failing].status = "waiting_feedback"
    /\ interviews' = collect_feedback_until(interviews, failing)
    /\ pc' = "raised"
    /\ UNCHANGED <<resumes, screening_results, hr_report, BOOKED, callers, log, ret>>

NextFault ==
    \/ Next
    \/ \E failing \in 1..MaxResumes : collect_feedback_node_raises(failing)

SpecFault == Init /\ [][NextFault]_vars

-----------------------------------------------------------------------------
(* init_interviews_node applied to screening results of either decision *)

\* a screening result as screen_resumes_node builds it, for a score on either
\* side of the threshold (in tenths)
sample_screening_result(idx, decision) ==
    [candidate_id |-> candidate_id_of(idx),
     score |-> IF decision = "shortlist" THEN 8 ELSE 5,
     decision |-> decision,
     reasons |-> "Good match for backend skills and years of experience"]

InitScreened ==
    /\ pc = "init_interviews"
    /\ \E decisions \in SeqsUpTo({"shortlist", "reject"}, MaxResumes) :
          /\ resumes = [i \in 1..Len(decisions) |-> "resume A"]
          /\ screening_results =
                [i \in 1..Len(decisions) |->
                    sample_screening_result(i - 1, decisions[i])]
    /\ interviews = <<>>
    /\ hr_report = None
    /\ BOOKED = <<>>
    /\ callers = <<>>
    /\ log = <<>>
    /\ ret = NoCall

NextScreened == init_interviews_node

SpecScreened == InitScreened /\ [][NextScreened]_vars

-----------------------------------------------------------------------------
(* Concurrent callers of book_slot: the membership test (line 111) and the *)
(* append (line 113) are separate steps of each caller                     *)

PanelSlotSet == {PANEL_SLOTS.backend_engineer[i] :
                    i \in 1..Len(PANEL_SLOTS.backend_engineer)}

InitConc ==
    /\ pc = "none"
    /\ resumes = <<>>
    /\ screening_results = <<>>
    /\ interviews = <<>>
    /\ hr_report = None
    /\ BOOKED = <<>>
    /\ \E asked \in [1..MaxCallers -> PanelSlotSet] :
          callers = [t \in 1..MaxCallers |->
                        [candidate_id |-> candidate_id_of(t - 1),
                         slot |-> asked[t],
                         at |-> "test",
                         status |-> None]]
    /\ log = <<>>
    /\ ret = NoCall

\* `if slot in BOOKED: return {"status": "failed", ...}`
book_slot_test(t) ==
    /\ callers[t].at = "test"
    /\ IF In(callers[t].slot, BOOKED)
       THEN callers' = [callers EXCEPT ![t].at = "returned", ![t].status = "failed"]
       ELSE callers' = [callers EXCEPT ![t].at = "append"]
    /\ UNCHANGED <<pc, resumes, screening_results, interviews, hr_report, BOOKED,
                   log, ret>>

\* `BOOKED.append(slot); return {"status": "confirmed", ...}`
book_slot_append(t) ==
    /\ callers[t].at = "append"
    /\ BOOKED' = Append(BOOKED, callers[t].slot)
    /\ callers' = [callers EXCEPT ![t].at = "returned", ![t].status = "confirmed"]
    /\ UNCHANGED <<pc, resumes, screening_results, interviews, hr_report, log, ret>>

NextConc ==
    \E t \in 1..MaxCallers :
        \/ book_slot_test(t)
        \/ book_slot_append(t)

SpecConc == InitConc /\ [][NextConc]_vars

-----------------------------------------------------------------------------
(* The run beside another run that shares the process-wide BOOKED: the     *)
(* other run books slots after this run's availability snapshot (line 170) *)
(* and before this run's bookings (line 182)                               *)

\* BOOKED after the other run's book_slot calls for the slots of taken
RECURSIVE booked_by_other(_, _)
booked_by_other(taken, booked) ==
    IF taken = <<>> THEN booked
    ELSE booked_by_other(Tail(taken), book_slot("other run", Head(taken), booked).booked)

\* the other run's calls, as they are logged
other_calls(taken) ==
    [x \in 1..Len(taken) |-> [op |-> "book_slot",
                              candidate_id |-> "other run",
                              slot |-> taken[x],
                              role |-> None,
                              status |-> "confirmed",
                              slots |-> <<>>,
                              booked |-> <<>>]]

\* schedule_round_node with the loop run on the stale snapshot
schedule_round_stale(ivs, booked, taken) ==
    schedule_loop(1, ivs, get_panel_availability("backend_engineer", booked),
                  booked_by_other(taken, booked))

schedule_round_node_shared(takenSet) ==
    /\ pc = "schedule_round"
    /\ LET free == get_panel_availability("backend_engineer", BOOKED)
           taken == SelectSeq(free, LAMBDA s : s \in takenSet)
           after == schedule_round_stale(interviews, BOOKED, taken)
       IN  /\ \A s \in takenSet : In(s, free)
           /\ interviews' = after.interviews
           /\ BOOKED' = after.booked
           /\ log' = log \o other_calls(taken)
    /\ pc' = "router"
    /\ UNCHANGED <<resumes, screening_results, hr_report, callers, ret>>

NextShared ==
    \/ screen_resumes_node
    \/ init_interviews_node
    \/ router_node
    \/ \E takenSet \in SUBSET PanelSlotSet : schedule_round_node_shared(takenSet)
    \/ collect_feedback_node
    \/ generate_hr_report_node

SpecShared == Init /\ [][NextShared]_vars

-----------------------------------------------------------------------------
(* A sequential session of ledger calls, one call at a time *)

\* slots asked for: the panel's and one that is in no panel
SessionSlots == PanelSlotSet \cup {"2025-12-14 09:00"}
SessionCandidates == {"cand-1", "cand-2"}
SessionRoles == {"backend_engineer", "data_engineer"}

InitLedger ==
    /\ pc = "none"
    /\ resumes = <<>>
    /\ screening_results = <<>>
    /\ interviews = <<>>
    /\ hr_report = None
    /\ BOOKED = <<>>
    /\ callers = <<>>
    /\ log = <<>>
    /\ ret = NoCall

call_book_slot(candidate_id, slot) ==
    /\ Len(log) < MaxCalls
    /\ LET booking == book_slot(candidate_id, slot, BOOKED)
       IN  /\ BOOKED' = booking.booked
           /\ log' = Append(log, [op |-> "book_slot",
                                  candidate_id |-> candidate_id,
                                  slot |-> slot,
                                  role |-> None,
                                  status |-> booking.status,
                                  slots |-> <<>>,
                                  booked |-> booking.booked])
    /\ UNCHANGED <<pc, resumes, screening_results, interviews, hr_report,
                   callers, ret>>

call_get_panel_availability(role) ==
    /\ Len(log) < MaxCalls
    /\ log' = Append(log, [op |-> "get_panel_availability",
                           candidate_id |-> None,
                           slot |-> None,
                           role |-> role,
                           status |-> None,
                           slots |-> get_panel_availability(role, BOOKED),
                           booked |-> BOOKED])
    /\ UNCHANGED <<pc, resumes, screening_results, interviews, hr_report, BOOKED,
                   callers, ret>>

NextLedger ==
    \/ \E c \in SessionCandidates, s \in SessionSlots : call_book_slot(c, s)
    \/ \E role \in SessionRoles : call_get_panel_availability(role)

SpecLedger == InitLedger /\ [][NextLedger]_vars

-----------------------------------------------------------------------------
(* route_next applied to a snapshot of interviews *)

Statuses == {"pending_first_round", "waiting_feedback", "next_round_pending",
             "rejected", "offer_made"}

\* a round of candidate idx as the stages leave it
sample_round(idx, round_number, feedback, decision) ==
    [round_number |-> round_number,
     slot |-> "slot " \o ToString(idx) \o "." \o ToString(round_number),
     feedback |-> feedback,
     decision |-> decision]

\* an interview record with the given status, as the stages leave it
sample_interview(idx, status) ==
    LET history ==
            CASE status = "pending_first_round" -> <<>>
              [] status = "waiting_feedback" ->
                    <<sample_round(idx, 1, None, None)>>
              [] status = "next_round_pending" ->
                    <<sample_round(idx, 1, simulate_feedback(1), "next_round")>>
              [] status = "rejected" ->
                    <<sample_round(idx, 1, "weak fundamentals", "reject")>>
              [] status = "offer_made" ->
                    <<sample_round(idx, 1, simulate_feedback(1), "next_round"),
                      sample_round(idx, 2, simulate_feedback(2), "offer")>>
    IN  [candidate_id |-> candidate_id_of(idx - 1),
         status |-> status,
         current_round |-> Len(history),
         history |-> history]

InitRoute ==
    /\ pc = "none"
    /\ resumes = <<>>
    /\ screening_results = <<>>
    /\ \E sts \in SeqsUpTo(Statuses, MaxInterviews) :
          interviews = [i \in 1..Len(sts) |-> sample_interview(i, sts[i])]
    /\ hr_report = None
    /\ BOOKED = <<>>
    /\ callers = <<>>
    /\ log = <<>>
    /\ ret = [op |-> "route_next", result |-> None]

call_route_next ==
    /\ ret.op = "route_next"
    /\ ret.result = None
    /\ ret' = [ret EXCEPT !.result = route_next(interviews)]
    /\ UNCHANGED <<pc, resumes, screening_results, interviews, hr_report, BOOKED,
                   callers, log>>

NextRoute == call_route_next

SpecRoute == InitRoute /\ [][NextRoute]_vars

-----------------------------------------------------------------------------
(* collect_feedback_node applied to a snapshot of interviews *)

\* the ledger that goes with a snapshot: the slots of its rounds
sample_booked(ivs) ==
    LET places == [x \in 1..(2 * Len(ivs)) |-> <<(x + 1) \div 2, 2 - (x % 2)>>]
        held == SelectSeq(places, LAMBDA p : p[2] <= Len(ivs[p[1]].history))
    IN  [y \in 1..Len(held) |-> ivs[held[y][1]].history[held[y][2]].slot]

InitFeedback ==
    /\ pc = "collect_feedback"
    /\ resumes = <<>>
    /\ screening_results = <<>>
    /\ \E sts \in SeqsUpTo(Statuses, MaxInterviews) :
          interviews = [i \in 1..Len(sts) |-> sample_interview(i, sts[i])]
    /\ hr_report = None
    /\ BOOKED = sample_booked(interviews)
    /\ callers = <<>>
    /\ log = <<>>
    /\ ret = NoCall

NextFeedback == collect_feedback_node

SpecFeedback == InitFeedback /\ [][NextFeedback]_vars

-----------------------------------------------------------------------------
(* decide_next_step applied to a feedback text and a round number *)

\* pieces of feedback text; a text is a concatenation of pieces
Vocabulary == {"weak", "strong", "WEAK", "Strong", "wea", "k", " ok "}

RECURSIVE Concat(_)
Concat(words) == IF words = <<>> THEN "" ELSE Head(words) \o Concat(Tail(words))

FeedbackTexts == {Concat(ws) : ws \in SeqsUpTo(Vocabulary, MaxWords)}

InitDecide ==
    /\ pc = "none"
    /\ resumes = <<>>
    /\ screening_results = <<>>
    /\ interviews = <<>>
    /\ hr_report = None
    /\ BOOKED = <<>>
    /\ callers = <<>>
    /\ log = <<>>
    /\ \E f \in FeedbackTexts, r \in 0..MaxRound :
          ret = [op |-> "decide_next_step", feedback |-> f, round_no |-> r,
                 result |-> None]

call_decide_next_step ==
    /\ ret.op = "decide_next_step"
    /\ ret.result = None
    /\ ret' = [ret EXCEPT !.result = decide_next_step(ret.feedback, ret.round_no)]
    /\ UNCHANGED <<pc, resumes, screening_results, interviews, hr_report, BOOKED,
                   callers, log>>

NextDecide == call_decide_next_step

SpecDecide == InitDecide /\ [][NextDecide]_vars

-----------------------------------------------------------------------------
(* Properties of the workflow run *)

\* C1: in a single run no slot is double-booked: BOOKED holds each slot at
\* most once, and no two rounds, of the same or of different candidates, carry
\* the same slot.
C1_NoDoubleBooking ==
    /\ \A a, b \in 1..Len(BOOKED) : a # b => BOOKED[a] # BOOKED[b]
    /\ \A i1, i2 \in 1..Len(interviews) :
          \A j1 \in 1..Len(interviews[i1].history),
             j2 \in 1..Len(interviews[i2].history) :
              <<i1, j1>> # <<i2, j2>> =>
                  interviews[i1].history[j1].slot # interviews[i2].history[j2].slot

\* a run that has booked every panel slot, second rounds included
C1_Witness ==
    /\ Len(BOOKED) = Len(PANEL_SLOTS.backend_engineer)
    /\ \E i \in 1..Len(interviews) : Len(interviews[i].history) = 2
    /\ \E i \in 1..Len(interviews) : Len(interviews[i].history) = 1

\* C3: the loop terminates: the router eventually selects generate_hr_report
\* and every candidate eventually is rejected or offer_made.
C3_Terminates ==
    /\ <>(pc = "generate_hr_report")
    /\ <>(/\ pc \notin {"screen_resumes", "init_interviews"}
          /\ \A i \in 1..Len(interviews) :
                interviews[i].status \in {"rejected", "offer_made"})

\* C5: current_round == len(history) for every candidate in every state
\* between stages.
C5_RoundIsHistoryLength ==
    \A i \in 1..Len(interviews) :
        interviews[i].current_round = Len(interviews[i].history)

\* a candidate scheduled twice
C5_Witness ==
    \E i \in 1..Len(interviews) :
        /\ interviews[i].current_round = 2
        /\ interviews[i].status = "waiting_feedback"

\* C6: history[i].round_number == i + 1 (0-based i) for every candidate and
\* every round of its history.
C6_RoundMonotonicity ==
    \A i \in 1..Len(interviews) :
        \A j \in 1..Len(interviews[i].history) :
            interviews[i].history[j].round_number = j

\* a history of two rounds
C6_Witness ==
    \E i \in 1..Len(interviews) :
        /\ Len(interviews[i].history) = 2
        /\ interviews[i].history[2].round_number = 2

\* C7: a status changes only along the five transitions, the two into
\* waiting_feedback only in the scheduling stage with a newly booked slot, the
\* three out of it only in the feedback stage; a rejected or offer_made
\* candidate never changes again.
C7_Transitions ==
    [][\A i \in (1..Len(interviews)) \cap (1..Len(interviews')) :
          LET old == interviews[i]
              new == interviews'[i]
          IN  /\ old.status # new.status =>
                    \/ /\ old.status \in {"pending_first_round", "next_round_pending"}
                       /\ new.status = "waiting_feedback"
                       /\ pc = "schedule_round"
                       /\ Len(new.history) = Len(old.history) + 1
                       /\ ~In(new.history[Len(new.history)].slot, BOOKED)
                       /\ In(new.history[Len(new.history)].slot, BOOKED')
                    \/ /\ old.status = "waiting_feedback"
                       /\ new.status \in {"next_round_pending", "rejected", "offer_made"}
                       /\ pc = "collect_feedback"
              /\ old.status \in {"rejected", "offer_made"} => new = old
      ]_vars

\* a candidate with an offer, after the stages that followed it
C7_Witness ==
    /\ pc = "END"
    /\ \E i \in 1..Len(interviews) : interviews[i].status = "offer_made"

\* C8: a scheduling tick with k eligible candidates and m free slots books
\* min(k, m) slots: the j-th eligible candidate gets the j-th free slot and
\* waits for feedback, for j up to min(k, m); the other eligible candidates
\* are left as they were, and the stage returns to the router.
C8_SchedulingTick ==
    [][pc = "schedule_round" =>
          LET idx == [i \in 1..Len(interviews) |-> i]
              elig == SelectSeq(idx, LAMBDA i : interviews[i].status \in
                                   {"pending_first_round", "next_round_pending"})
              free == SelectSeq(PANEL_SLOTS.backend_engineer,
                                LAMBDA s : ~In(s, BOOKED))
              k == Len(elig)
              m == Len(free)
              n == IF k < m THEN k ELSE m
          IN  /\ Len(BOOKED') = Len(BOOKED) + n
              /\ Len(interviews') = Len(interviews)
              /\ \A j \in 1..k :
                    LET old == interviews[elig[j]]
                        new == interviews'[elig[j]]
                    IN  IF j <= n
                        THEN /\ new.status = "waiting_feedback"
                             /\ new.current_round = old.current_round + 1
                             /\ Len(new.history) = Len(old.history) + 1
                             /\ new.history[Len(new.history)].slot = free[j]
                             /\ In(free[j], BOOKED')
                        ELSE new = old
              /\ pc' = "router"
      ]_vars

\* after a tick with fewer free slots than eligible candidates: one candidate
\* got the last slot, another still waits for one
C8_Witness ==
    /\ pc = "router"
    /\ Len(BOOKED) = Len(PANEL_SLOTS.backend_engineer)
    /\ \E i, j \in 1..Len(interviews) :
          /\ i < j
          /\ interviews[i].status = "waiting_feedback"
          /\ interviews[i].current_round = 2
          /\ interviews[j].status = "next_round_pending"

-----------------------------------------------------------------------------
(* Properties of the ledger *)

\* C2: of the concurrent book_slot calls on one slot, at most one returns
\* "confirmed".
C2_AtMostOneConfirmed ==
    \A s \in PanelSlotSet :
        Cardinality({t \in 1..Len(callers) :
                        callers[t].slot = s /\ callers[t].status = "confirmed"}) <= 1

\* C9: once book_slot has returned "confirmed" for a slot, every later
\* book_slot on it returns "failed", get_panel_availability never returns it
\* again, and it stays booked.
C9_LedgerIdempotence ==
    \A i, j \in 1..Len(log) :
        (i < j /\ log[i].op = "book_slot" /\ log[i].status = "confirmed") =>
            /\ (log[j].op = "book_slot" /\ log[j].slot = log[i].slot) =>
                    log[j].status = "failed"
            /\ log[j].op = "get_panel_availability" => ~In(log[i].slot, log[j].slots)
            /\ In(log[i].slot, log[j].booked)
            /\ In(log[i].slot, BOOKED)

\* a slot confirmed, then refused to the other candidate, then absent from the
\* role's availability
C9_Witness ==
    /\ Len(log) = 3
    /\ log[1].op = "book_slot" /\ log[1].status = "confirmed"
    /\ log[2].op = "book_slot" /\ log[2].slot = log[1].slot
    /\ log[2].candidate_id # log[1].candidate_id
    /\ log[2].status = "failed"
    /\ log[3].op = "get_panel_availability" /\ log[3].role = "backend_engineer"
    /\ Len(log[3].slots) = Len(PANEL_SLOTS.backend_engineer) - 1

-----------------------------------------------------------------------------
(* Properties of the pure functions *)

\* C4: route_next is first-match-wins: schedule_round if any candidate is
\* pending_first_round or next_round_pending, otherwise collect_feedback if
\* any is waiting_feedback, otherwise generate_hr_report.
C4_RoutingOrder ==
    (ret.op = "route_next" /\ ret.result # None) =>
        LET present == {interviews[i].status : i \in 1..Len(interviews)}
            toSchedule == present \cap {"pending_first_round", "next_round_pending"} # {}
            toCollect == "waiting_feedback" \in present
        IN  /\ toSchedule => ret.result = "schedule_round"
            /\ (~toSchedule /\ toCollect) => ret.result = "collect_feedback"
            /\ (~toSchedule /\ ~toCollect) => ret.result = "generate_hr_report"

\* a snapshot with a pending_first_round and a waiting_feedback candidate,
\* routed to scheduling
C4_Witness ==
    /\ ret.op = "route_next"
    /\ ret.result = "schedule_round"
    /\ \E i, j \in 1..Len(interviews) :
          /\ interviews[i].status = "waiting_feedback"
          /\ interviews[j].status = "pending_first_round"
          /\ i < j

\* C10, as stated: a text containing "weak" gives reject; otherwise a text
\* containing "strong" gives offer for round >= 2 and next_round for round 1;
\* a text containing neither gives reject.
C10_TableAsStated ==
    (ret.op = "decide_next_step" /\ ret.result # None) =>
        LET weak == Contains("weak", ret.feedback)
            strong == Contains("strong", ret.feedback)
        IN  /\ weak => ret.result = "reject"
            /\ (~weak /\ strong /\ ret.round_no >= 2) => ret.result = "offer"
            /\ (~weak /\ strong /\ ret.round_no = 1) => ret.result = "next_round"
            /\ (~weak /\ ~strong) => ret.result = "reject"

\* C10, amended: the same table with the markers looked for in the lower-cased
\* text, and reject for "strong" at a round below 1.
C10_TableIgnoringCase ==
    (ret.op = "decide_next_step" /\ ret.result # None) =>
        LET weak == Contains("weak", lower(ret.feedback))
            strong == Contains("strong", lower(ret.feedback))
        IN  /\ weak => ret.result = "reject"
            /\ (~weak /\ strong /\ ret.round_no >= 2) => ret.result = "offer"
            /\ (~weak /\ strong /\ ret.round_no = 1) => ret.result = "next_round"
            /\ (~weak /\ strong /\ ret.round_no < 1) => ret.result = "reject"
            /\ (~weak /\ ~strong) => ret.result = "reject"

\* a text with both markers, one of them in capitals, rejected at round 2
C10_Witness ==
    /\ ret.op = "decide_next_step"
    /\ ret.feedback = "strongWEAK"
    /\ ret.round_no = 2
    /\ ret.result = "reject"

-----------------------------------------------------------------------------
(* Properties of the stages *)

\* C11: when a collaborator fails for one waiting_feedback candidate, the
\* feedback tick is not aborted and every other waiting_feedback candidate,
\* earlier or later in the list, gets its feedback, decision and transition:
\* a feedback tick leaves at most one waiting candidate unprocessed and
\* returns to the router.
C11_FailureIsolated ==
    [][pc = "collect_feedback" =>
          /\ pc' = "router"
          /\ Cardinality({i \in 1..Len(interviews) :
                            /\ interviews[i].status = "waiting_feedback"
                            /\ interviews'[i] = interviews[i]}) <= 1
      ]_vars


\* C12: the report stage runs exactly once per run: the run reaches it, it
\* runs only when the router has selected it, with no candidate pending or
\* waiting, it has not run before, and no stage runs after it.
C12_ReportOnce ==
    /\ <>(hr_report # None)
    /\ [][pc' = "generate_hr_report" =>
             (pc = "router" /\ route_next(interviews) = "generate_hr_report")]_vars
    /\ [][pc = "generate_hr_report" =>
             /\ hr_report = None
             /\ \A i \in 1..Len(interviews) :
                   interviews[i].status \in {"rejected", "offer_made"}
             /\ pc' = "END"]_vars
    /\ [][hr_report # None => UNCHANGED vars]_vars


\* C13: the router is a pure function of the candidate statuses: a router step
\* leaves the interviews, the screening results and the ledger as they are,
\* and the stage it selects is a function of the sequence of statuses alone.
C13_RouterPure ==
    [][pc = "router" =>
          LET statuses == [i \in 1..Len(interviews) |-> interviews[i].status]
              stage == IF \E i \in 1..Len(statuses) :
                              statuses[i] \in {"pending_first_round",
                                               "next_round_pending"}
                       THEN "schedule_round"
                       ELSE IF \E i \in 1..Len(statuses) :
                                   statuses[i] = "waiting_feedback"
                       THEN "collect_feedback"
                       ELSE "generate_hr_report"
          IN  /\ UNCHANGED <<interviews, screening_results, BOOKED, resumes,
                             hr_report>>
              /\ pc' = stage
      ]_vars

\* the router has sent candidates waiting after their second round to the
\* feedback stage, as it did after their first round with another ledger and
\* other histories
C13_Witness ==
    /\ pc = "collect_feedback"
    /\ Len(interviews) = 2
    /\ \A i \in 1..Len(interviews) :
          /\ interviews[i].status = "waiting_feedback"
          /\ interviews[i].current_round = 2
    /\ Len(BOOKED) = 4


\* C14: initialization creates one interview per screening result with
\* decision shortlist, in the order of the screening results, each
\* pending_first_round with current_round 0 and an empty history, and none for
\* a result with decision reject.
C14_InitShortlisted ==
    pc = "router" =>
        LET shortlisted == SelectSeq(screening_results,
                                     LAMBDA r : r.decision = "shortlist")
        IN  /\ Len(interviews) = Len(shortlisted)
            /\ \A i \in 1..Len(shortlisted) :
                  interviews[i] = [candidate_id |-> shortlisted[i].candidate_id,
                                   status |-> "pending_first_round",
                                   current_round |-> 0,
                                   history |-> <<>>]

\* a rejected result between two shortlisted ones
C14_Witness ==
    /\ pc = "router"
    /\ Len(screening_results) = 3
    /\ screening_results[1].decision = "shortlist"
    /\ screening_results[2].decision = "reject"
    /\ screening_results[3].decision = "shortlist"
    /\ Len(interviews) = 2
    /\ interviews[2].candidate_id = "cand-3"


\* C15: when a booking fails in a scheduling tick, because another run took
\* the slot after the availability snapshot, the candidate is left as it was
\* and still eligible, and no other slot is booked for it in that tick: the
\* j-th eligible candidate is scheduled on the j-th slot of the snapshot if
\* that slot was not taken, and otherwise unchanged, and the tick books no
\* slot besides these.
C15_FailedBookingDeferred ==
    [][pc = "schedule_round" =>
          LET idx == [i \in 1..Len(interviews) |-> i]
              elig == SelectSeq(idx, LAMBDA i : interviews[i].status \in
                                   {"pending_first_round", "next_round_pending"})
              free == SelectSeq(PANEL_SLOTS.backend_engineer,
                                LAMBDA s : ~In(s, BOOKED))
              k == Len(elig)
              m == Len(free)
              n == IF k < m THEN k ELSE m
              taken == {log'[x].slot : x \in (Len(log) + 1)..Len(log')}
              got == {free[j] : j \in {h \in 1..n : free[h] \notin taken}}
          IN  /\ \A j \in 1..k :
                    LET old == interviews[elig[j]]
                        new == interviews'[elig[j]]
                    IN  IF j <= n /\ free[j] \notin taken
                        THEN /\ new.status = "waiting_feedback"
                             /\ new.current_round = old.current_round + 1
                             /\ new.history[Len(new.history)].slot = free[j]
                        ELSE /\ new = old
                             /\ new.status \in {"pending_first_round",
                                                "next_round_pending"}
              /\ {BOOKED'[x] : x \in 1..Len(BOOKED')}
                    = {BOOKED[x] : x \in 1..Len(BOOKED)} \cup taken \cup got
              /\ Len(BOOKED') = Len(BOOKED) + Cardinality(taken \cup got)
      ]_vars

\* the only candidate lost the first slot to the other run: it is still
\* pending, and the three slots left are still free
C15_Witness ==
    /\ pc = "router"
    /\ Len(interviews) = 1
    /\ interviews[1].status = "pending_first_round"
    /\ interviews[1].history = <<>>
    /\ Len(log) = 1
    /\ BOOKED = <<PANEL_SLOTS.backend_engineer[1]>>


\* C16: every tick makes progress: a scheduling stage books at least one slot
\* and moves at least one candidate to waiting_feedback, a feedback stage
\* resolves at least one candidate, and no stage leaves the state unchanged.
C16_EveryTickProgresses ==
    [][/\ pc = "schedule_round" =>
              /\ Len(BOOKED') > Len(BOOKED)
              /\ \E i \in 1..Len(interviews) :
                    /\ interviews[i].status # "waiting_feedback"
                    /\ interviews'[i].status = "waiting_feedback"
       /\ pc = "collect_feedback" =>
              \E i \in 1..Len(interviews) :
                  /\ interviews[i].status = "waiting_feedback"
                  /\ interviews'[i].status # "waiting_feedback"
       /\ pc \in {"schedule_round", "collect_feedback"} =>
              <<interviews, BOOKED>>' # <<interviews, BOOKED>>
      ]_vars

\* C17: the feedback stage fills feedback and decision of the last round of
\* each waiting_feedback candidate in place: no round is appended,
\* current_round, round_number and slot stay, the ledger stays, and a
\* candidate that is not waiting_feedback is left as it is.
C17_FeedbackInPlace ==
    [][pc = "collect_feedback" =>
          /\ BOOKED' = BOOKED
          /\ Len(interviews') = Len(interviews)
          /\ \A i \in 1..Len(interviews) :
                LET old == interviews[i]
                    new == interviews'[i]
                    n == Len(old.history)
                IN  IF old.status # "waiting_feedback" THEN new = old
                    ELSE /\ new.candidate_id = old.candidate_id
                         /\ new.current_round = old.current_round
                         /\ Len(new.history) = n
                         /\ \A j \in 1..(n - 1) : new.history[j] = old.history[j]
                         /\ new.history[n].round_number = old.history[n].round_number
                         /\ new.history[n].slot = old.history[n].slot
                         /\ new.history[n].feedback # None
                         /\ new.history[n].decision # None
      ]_vars

\* after the stage ran on a snapshot of a rejected candidate, a candidate
\* with an offer and one that waited for its first feedback
C17_Witness ==
    /\ pc = "router"
    /\ Len(interviews) = 3
    /\ interviews[1].status = "rejected"
    /\ interviews[2].status = "next_round_pending"
    /\ interviews[3].status = "offer_made"
    /\ Len(BOOKED) = 4

\* C18: history is append-only: a round that is not the last of its history
\* is never modified again, and it has a feedback and the decision next_round.
C18_AppendOnly ==
    /\ [](\A i \in 1..Len(interviews) :
             \A j \in 1..(Len(interviews[i].history) - 1) :
                 /\ interviews[i].history[j].feedback # None
                 /\ interviews[i].history[j].decision = "next_round")
    /\ [][\A i \in (1..Len(interviews)) \cap (1..Len(interviews')) :
             /\ Len(interviews'[i].history) >= Len(interviews[i].history)
             /\ \A j \in 1..(Len(interviews[i].history) - 1) :
                   interviews'[i].history[j] = interviews[i].history[j]
             /\ Len(interviews'[i].history) > Len(interviews[i].history) =>
                   \A j \in 1..Len(interviews[i].history) :
                       interviews'[i].history[j] = interviews[i].history[j]
         ]_vars

\* a first round still as it was decided, after the second round was decided
C18_Witness ==
    \E i \in 1..Len(interviews) :
        /\ Len(interviews[i].history) = 2
        /\ interviews[i].history[1].decision = "next_round"
        /\ interviews[i].history[1].feedback = simulate_feedback(1)
        /\ interviews[i].history[2].decision = "offer"

\* C19: status and history agree: waiting_feedback has a last round with
\* feedback and decision None, pending_first_round has no round, and
\* next_round_pending, rejected and offer_made have a last round decided
\* next_round, reject and offer.
C19_StatusMatchesHistory ==
    \A i \in 1..Len(interviews) :
        LET iv == interviews[i]
            n == Len(iv.history)
        IN  /\ iv.status = "waiting_feedback" =>
                  /\ n >= 1
                  /\ iv.history[n].feedback = None
                  /\ iv.history[n].decision = None
            /\ iv.status = "pending_first_round" => n = 0
            /\ iv.status = "next_round_pending" =>
                  (n >= 1 /\ iv.history[n].decision = "next_round")
            /\ iv.status = "rejected" =>
                  (n >= 1 /\ iv.history[n].decision = "reject")
            /\ iv.status = "offer_made" =>
                  (n >= 1 /\ iv.history[n].decision = "offer")

\* one candidate waiting for the feedback of its second round beside one that
\* still waits for a slot
C19_Witness ==
    \E i, j \in 1..Len(interviews) :
        /\ interviews[i].status = "waiting_feedback"
        /\ Len(interviews[i].history) = 2
        /\ interviews[j].status = "next_round_pending"

\* C20: in a run from an empty ledger the number of booked slots is the sum
\* of current_round over the candidates, every booked slot is the slot of
\* exactly one round and every round's slot is booked, so the rounds
\* scheduled never outnumber the panel's slots.
C20_LedgerAccounting ==
    LET counted == {<<i, j>> \in (1..Len(interviews)) \X (1..Len(BOOKED)) :
                        j <= interviews[i].current_round}
        rounds == {<<i, j>> \in (1..Len(interviews)) \X (1..Len(BOOKED) + 1) :
                        j <= Len(interviews[i].history)}
    IN  /\ Len(BOOKED) = Cardinality(counted)
        /\ \A x \in 1..Len(BOOKED) :
              Cardinality({r \in rounds :
                  interviews[r[1]].history[r[2]].slot = BOOKED[x]}) = 1
        /\ \A r \in rounds : In(interviews[r[1]].history[r[2]].slot, BOOKED)
        /\ Cardinality(rounds) = Cardinality(counted)
        /\ Cardinality(rounds) <= Len(PANEL_SLOTS.backend_engineer)

\* every slot of the panel booked, by three candidates
C20_Witness ==
    /\ Len(BOOKED) = Len(PANEL_SLOTS.backend_engineer)
    /\ Len(interviews) = 3
    /\ interviews[1].current_round = 2
    /\ interviews[2].current_round = 1
    /\ interviews[3].current_round = 1

====
